---- MODULE Spec2Model ----
(***************************************************************************)
(* Cajita global mesh (src/src/Cajita_GlobalMesh.hpp): the uniform mesh    *)
(* with its two validating constructors, the non-uniform mesh, and the     *)
(* read-only query interface of both.                                      *)
(*                                                                         *)
(* Scalar is a binary floating-point type.  A Scalar value is the pair     *)
(* <<m, e>> standing for m * 2^e, kept normalised: m = 0 and e = 0, or     *)
(* 2^(Digits-1) <= |m| < 2^Digits.  Every arithmetic operation rounds its  *)
(* exact result to nearest, ties to even, as IEEE 754 arithmetic does.     *)
(* The exponent range is taken wide enough that the explored inputs        *)
(* neither overflow nor underflow; the sign of zero is not tracked (no     *)
(* comparison of the code distinguishes -0 from +0).                       *)
(***************************************************************************)
EXTENDS Integers, Sequences, FiniteSets, TLC

\* std::numeric_limits<Scalar>::digits of the Scalar the mesh is instantiated
\* with.  11 is the precision of IEEE binary16, chosen below that of float
\* (24) and double (53) so that exact products and quotients stay within the
\* integers of the model; nothing below depends on the value.
Digits == 11

\* The factor of the tolerance, Scalar( 100.0 ).
TolFactor == 100

RECURSIVE Pow2(_)
Pow2(n) == IF n <= 0 THEN 1 ELSE 2 * Pow2(n - 1)

\* Number of bits of a natural number.
RECURSIVE BitLen(_)
BitLen(a) == IF a = 0 THEN 0 ELSE 1 + BitLen(a \div 2)

AbsInt(n) == IF n < 0 THEN -n ELSE n

SgnInt(n) == IF n < 0 THEN -1 ELSE 1

Zero == <<0, 0>>

IsZero(x) == x[1] = 0

\* q, the integer part of a / 2^s, moved to the nearest integer of a / 2^s,
\* ties to even.
NearestEven(a, s) ==
    LET q == a \div Pow2(s)
        r == a % Pow2(s)
        half == Pow2(s - 1)
    IN  IF s <= 0 THEN a
        ELSE IF r > half \/ (r = half /\ q % 2 = 1) THEN q + 1 ELSE q

\* The Scalar nearest to the exact value n * 2^e (round to nearest, ties to
\* even).
Round(n, e) ==
    LET a == AbsInt(n)
        len == BitLen(a)
        s == len - Digits
        q == NearestEven(a, s)
    IN  IF a = 0 THEN Zero
        ELSE IF s <= 0 THEN <<SgnInt(n) * a * Pow2(-s), e + s>>
        ELSE IF q = Pow2(Digits) THEN <<SgnInt(n) * Pow2(Digits - 1), e + s + 1>>
        ELSE <<SgnInt(n) * q, e + s>>

\* int is 32 bits wide.
IntMax == 2147483647

IntMin == -IntMax - 1

\* int -> Scalar conversion (INT_MIN = -2^31 apart: its magnitude is no int).
FromInt(n) ==
    IF n = IntMin THEN <<-Pow2(Digits - 1), 32 - Digits>> ELSE Round(n, 0)

Neg(x) == <<-x[1], x[2]>>

\* A comparison written without std::abs.
AbsMissing(x) == x

\* std::abs
Abs(x) == <<AbsInt(x[1]), x[2]>>

\* Scalar - Scalar.  When the exponents are more than Digits + 1 apart the
\* smaller operand is below a quarter unit in the last place of the larger
\* one and the rounded difference is the larger operand.
Sub(x, y) ==
    LET e == IF x[2] < y[2] THEN x[2] ELSE y[2]
    IN  IF IsZero(y) THEN x
        ELSE IF IsZero(x) THEN Neg(y)
        ELSE IF x[2] - y[2] > Digits + 1 THEN x
        ELSE IF y[2] - x[2] > Digits + 1 THEN Neg(y)
        ELSE Round(x[1] * Pow2(x[2] - e) - y[1] * Pow2(y[2] - e), e)

\* Scalar * Scalar.
Mul(x, y) == Round(x[1] * y[1], x[2] + y[2])

\* Scalar / Scalar, y nonzero.  The quotient is taken to Digits + 2 bits at
\* least and a sticky bit records a nonzero remainder, so that Round rounds
\* the exact quotient.
Div(x, y) ==
    LET a == AbsInt(x[1]) * Pow2(Digits + 2)
        b == AbsInt(y[1])
        q == 2 * (a \div b) + (IF a % b = 0 THEN 0 ELSE 1)
    IN  Round(SgnInt(x[1]) * SgnInt(y[1]) * q, x[2] - y[2] - (Digits + 2) - 1)

\* x > y on Scalars: the sign of the difference (rounding keeps the sign).
Gt(x, y) == Sub(x, y)[1] > 0

\* std::rint followed by the conversion to int, for a finite x: the nearest
\* integer, ties to even (the default rounding mode).
RintToInt(x) ==
    LET a == AbsInt(x[1])
    IN  IF x[2] >= 0 THEN x[1] * Pow2(x[2])
        ELSE IF -x[2] > Digits + 1 THEN 0
        ELSE SgnInt(x[1]) * NearestEven(a, -x[2])

\* std::numeric_limits<Scalar>::epsilon() = 2^(1 - Digits).
Epsilon == <<Pow2(Digits - 1), 2 - 2 * Digits>>

\* Scalar( 100.0 ) * std::numeric_limits<Scalar>::epsilon()
Tol == Mul(FromInt(TolFactor), Epsilon)

(***************************************************************************)
(* Dim::I, Dim::J, Dim::K of Cajita_Types.hpp and the three dimensions.    *)
(***************************************************************************)
DimI == 0

DimJ == 1

DimK == 2

NumDims == 3

Dims == 0 .. (NumDims - 1)

(***************************************************************************)
(* Bounds of the explored inputs.                                          *)
(***************************************************************************)
\* Cell counts handed to the cell-count constructor are 1 .. MaxNumCell.
MaxNumCell == 3

\* Edge vectors handed to the non-uniform constructor have 0 .. MaxEdgeLen
\* entries.
MaxEdgeLen == 3

\* Number of concurrent readers of a constructed mesh.
NumReaders == 2

One == FromInt(1)

Quarter == Div(One, FromInt(4))

\* (low_corner[d], high_corner[d]) of one dimension: divisible and
\* non-divisible extents, extents on both sides of the tolerance, small
\* extents, an extent that is not exact, and corners with high <= low.
CornerPairs ==
    { <<Zero, FromInt(10)>>,
      <<Zero, FromInt(20)>>,
      <<Zero, One>>,
      <<Zero, Quarter>>,
      <<Zero, Mul(FromInt(3), Div(One, FromInt(8)))>>,
      <<Zero, Sub(One, Neg(Tol))>>,
      <<Zero, Sub(One, Tol)>>,
      <<Zero, Sub(Sub(One, Neg(Tol)), Neg(Epsilon))>>,
      <<Div(One, FromInt(3)), FromInt(10)>>,
      <<FromInt(10), Zero>>,
      <<One, One>> }

\* cell_size of the cell-size constructor: nonzero (with a zero cell size
\* globalNumCell is undefined), of either sign.
CellSizes == { Quarter, One, FromInt(2), FromInt(3), Neg(FromInt(2)) }

NumCells == 1 .. MaxNumCell

EdgeValues == { One, FromInt(6) }

RECURSIVE SeqsUpTo(_, _)
SeqsUpTo(S, n) ==
    IF n = 0 THEN { <<>> }
    ELSE LET shorter == SeqsUpTo(S, n - 1)
         IN  shorter \cup { Append(s, v) : s \in { t \in shorter : Len(t) = n - 1 }, v \in S }

EdgeSeqs == SeqsUpTo(EdgeValues, MaxEdgeLen)

\* The inputs of the meshes the readers query: few meshes, many readings.
QueryPairs == { <<Zero, FromInt(10)>>, <<FromInt(10), Zero>> }

QuerySizes == { FromInt(2), FromInt(3) }

QueryCounts == { 1, 2 }

QuerySeqs == { <<One, FromInt(6)>>, <<FromInt(6), One>> }

Readers == 1 .. NumReaders

\* What the conversion of a non-finite Scalar to int can yield (the
\* conversion is undefined): the "integer indefinite" value INT_MIN, or the
\* saturated values 0 and INT_MAX.
UBInts == { IntMin, 0, IntMax }

\* The values globalNumCell can yield where it is undefined; it is undefined
\* exactly when _cell_size is zero, and its choice is not read otherwise.
UBChoices(cell_size) == IF IsZero(cell_size) THEN UBInts ELSE { 0 }

(***************************************************************************)
(* State.                                                                  *)
(***************************************************************************)
VARIABLES
    args,     \* the arguments of the constructor call made, ctor = "none" before it
    mesh,     \* the object the call produced, kind = "none" when it threw
    thrown,   \* what() of the std::logic_error thrown, "" when none
    rebuilt,  \* outcome of constructing again by cell size from a mesh built by cell count
    ret       \* per reader, the last query it made and the value returned

vars == <<args, mesh, thrown, rebuilt, ret>>

NoMesh == [kind |-> "none"]

NoArgs == [ctor |-> "none"]

NotRebuilt == [done |-> FALSE]

NoCall == [q |-> "none", dim |-> 0, val |-> 0]

ExtentNotDivisible == "Extent not evenly divisible by uniform cell size"

CellSizesNotEqual == "Cell sizes not equal"

NumCellMismatch == "Global number of cells mismatch"

(***************************************************************************)
(* GlobalMesh<UniformMesh<Scalar>>: queries.                               *)
(***************************************************************************)
lowCorner(m, dim) == m.global_low_corner[dim]

highCorner(m, dim) == m.global_high_corner[dim]

extent(m, dim) == Sub(highCorner(m, dim), lowCorner(m, dim))

\* std::rint( extent / _cell_size ) converted to int.  With _cell_size zero
\* the quotient is infinite or NaN and the conversion is undefined: ub is
\* the value it yields.
globalNumCell(m, dim, ub) ==
    IF IsZero(m.cell_size) THEN ub
    ELSE RintToInt(Div(extent(m, dim), m.cell_size))

uniformCellSize(m) == m.cell_size

(***************************************************************************)
(* GlobalMesh<UniformMesh<Scalar>>: constructors.                          *)
(***************************************************************************)
\* The corner members initialised from the wrong arguments.
UniformMeshSwapped(low, high, cell_size) ==
    [kind |-> "uniform", global_low_corner |-> high,
     global_high_corner |-> low, cell_size |-> cell_size]

UniformMesh(low, high, cell_size) ==
    [kind |-> "uniform", global_low_corner |-> low,
     global_high_corner |-> high, cell_size |-> cell_size]

\* std::abs( ext - extent( d ) ) > Scalar( 100.0 ) * epsilon, with
\* ext = globalNumCell( d ) * _cell_size.
NotDivisible(m, d, ub) ==
    Gt(Abs(Sub(Mul(FromInt(globalNumCell(m, d, ub)), m.cell_size), extent(m, d))), Tol)

\* The loop stopping one dimension early (d < 2).
RECURSIVE SizeLoopShort(_, _, _)
SizeLoopShort(m, d, ub) ==
    IF d >= NumDims - 1 THEN ""
    ELSE IF NotDivisible(m, d, ub) THEN ExtentNotDivisible
    ELSE SizeLoopShort(m, d + 1, ub)

\* The cell-size constructor comparing with >= in place of >.
CtorCellSizeStrict(low, high, cell_size, ub) ==
    LET m == UniformMesh(low, high, cell_size)
        off(d) == Abs(Sub(Mul(FromInt(globalNumCell(m, d, ub)), cell_size), extent(m, d)))
        t == IF \E d \in Dims : ~Gt(Tol, off(d)) THEN ExtentNotDivisible ELSE ""
    IN  [thrown |-> t, mesh |-> IF t = "" THEN m ELSE NoMesh]

\* The loop of the cell-size constructor from dimension d on: the message
\* thrown, "" when the loop completes.
RECURSIVE SizeLoop(_, _, _)
SizeLoop(m, d, ub) ==
    IF d >= NumDims THEN ""
    ELSE IF NotDivisible(m, d, ub) THEN ExtentNotDivisible
    ELSE SizeLoop(m, d + 1, ub)

\* Cell size constructor: the message thrown ("" when none) and the object.
CtorCellSize(low, high, cell_size, ub) ==
    LET m == UniformMesh(low, high, cell_size)
        t == SizeLoop(m, 0, ub)
    IN  [thrown |-> t, mesh |-> IF t = "" THEN m ELSE NoMesh]

\* cell_sizes[d] of the cell-count constructor.
CandidateSizes(low, high, num_cell) ==
    [d \in Dims |-> Div(Sub(high[d], low[d]), FromInt(num_cell[d]))]

\* The test comparing dimension I with dimension J alone.
SizesDifferOnlyJ(cell_sizes) ==
    Gt(Abs(Sub(cell_sizes[DimI], cell_sizes[DimJ])), Tol)

\* The test that throws "Cell sizes not equal".
SizesDiffer(cell_sizes) ==
    \/ Gt(Abs(Sub(cell_sizes[DimI], cell_sizes[DimJ])), Tol)
    \/ Gt(Abs(Sub(cell_sizes[DimI], cell_sizes[DimK])), Tol)

\* The loop without its evenly-divisible check.
RECURSIVE CountLoopNoDivisible(_, _, _, _, _)
CountLoopNoDivisible(m, num_cell, d, ub1, ub2) ==
    IF d >= NumDims THEN ""
    ELSE IF globalNumCell(m, d, ub2) # num_cell[d] THEN NumCellMismatch
    ELSE CountLoopNoDivisible(m, num_cell, d + 1, ub1, ub2)

\* The loop without its cell-count check.
RECURSIVE CountLoopNoCount(_, _, _, _, _)
CountLoopNoCount(m, num_cell, d, ub1, ub2) ==
    IF d >= NumDims THEN ""
    ELSE IF NotDivisible(m, d, ub1) THEN ExtentNotDivisible
    ELSE CountLoopNoCount(m, num_cell, d + 1, ub1, ub2)

\* The loop of the cell-count constructor from dimension d on.  ub1 and ub2
\* are what the two calls of globalNumCell yield when it is undefined.
RECURSIVE CountLoop(_, _, _, _, _)
CountLoop(m, num_cell, d, ub1, ub2) ==
    IF d >= NumDims THEN ""
    ELSE IF NotDivisible(m, d, ub1) THEN ExtentNotDivisible
    ELSE IF globalNumCell(m, d, ub2) # num_cell[d] THEN NumCellMismatch
    ELSE CountLoop(m, num_cell, d + 1, ub1, ub2)

\* Number of global cells constructor.
CtorNumCell(low, high, num_cell, ub1, ub2) ==
    LET cell_sizes == CandidateSizes(low, high, num_cell)
        m == UniformMesh(low, high, cell_sizes[DimI])
        t == IF SizesDiffer(cell_sizes) THEN CellSizesNotEqual
             ELSE CountLoop(m, num_cell, 0, ub1, ub2)
    IN  [thrown |-> t, mesh |-> IF t = "" THEN m ELSE NoMesh]

(***************************************************************************)
(* GlobalMesh<NonUniformMesh<Scalar>>.                                     *)
(***************************************************************************)
\* The edge arrays stored in the wrong order.
CtorEdgesSwapped(i_edges, j_edges, k_edges) ==
    [kind |-> "nonuniform", edges |-> <<i_edges, k_edges, j_edges>>]

CtorEdges(i_edges, j_edges, k_edges) ==
    [kind |-> "nonuniform", edges |-> <<i_edges, j_edges, k_edges>>]

\* _edges is indexed from 0, the tuple from 1.
edgesOf(m, dim) == m.edges[dim + 1]

\* front() and back(): the vector must not be empty.
nonUniformLowCorner(m, dim) == edgesOf(m, dim)[1]

\* highCorner returning front() as lowCorner does.
nonUniformHighCornerFront(m, dim) == m.edges[dim + 1][1]

nonUniformHighCorner(m, dim) == edgesOf(m, dim)[Len(edgesOf(m, dim))]

nonUniformExtent(m, dim) ==
    Sub(nonUniformHighCorner(m, dim), nonUniformLowCorner(m, dim))

\* size() - 1 converted to int (-1 for an empty vector).
nonUniformGlobalNumCell(m, dim) == Len(edgesOf(m, dim)) - 1

nonUniformEdge(m, dim) == edgesOf(m, dim)

(***************************************************************************)
(* Operations.                                                             *)
(***************************************************************************)
Init ==
    /\ args = NoArgs
    /\ mesh = NoMesh
    /\ thrown = ""
    /\ rebuilt = NotRebuilt
    /\ ret = [r \in Readers |-> NoCall]

\* createUniformGlobalMesh( low, high, cell_size )
CreateByCellSize(pairs, sizes) ==
    /\ args.ctor = "none"
    /\ \E c \in [Dims -> pairs], cell_size \in sizes :
        \E ub \in UBChoices(cell_size) :
          LET low == [d \in Dims |-> c[d][1]]
              high == [d \in Dims |-> c[d][2]]
              r == CtorCellSize(low, high, cell_size, ub)
          IN  /\ args' = [ctor |-> "cell_size", low |-> low, high |-> high,
                          cell_size |-> cell_size]
              /\ mesh' = r.mesh
              /\ thrown' = r.thrown
    /\ UNCHANGED <<rebuilt, ret>>

\* createUniformGlobalMesh( low, high, num_cell )
CreateByNumCell(pairs, counts) ==
    /\ args.ctor = "none"
    /\ \E c \in [Dims -> pairs], num_cell \in [Dims -> counts] :
        \E ub1, ub2 \in UBChoices(Sub(c[DimI][2], c[DimI][1])) :
          LET low == [d \in Dims |-> c[d][1]]
              high == [d \in Dims |-> c[d][2]]
              r == CtorNumCell(low, high, num_cell, ub1, ub2)
          IN  /\ args' = [ctor |-> "num_cell", low |-> low, high |-> high,
                          num_cell |-> num_cell]
              /\ mesh' = r.mesh
              /\ thrown' = r.thrown
    /\ UNCHANGED <<rebuilt, ret>>

\* createNonUniformGlobalMesh( i_edges, j_edges, k_edges )
CreateNonUniform(seqs) ==
    /\ args.ctor = "none"
    /\ \E i_edges \in seqs, j_edges \in seqs, k_edges \in seqs :
          /\ args' = [ctor |-> "edges", edges |-> <<i_edges, j_edges, k_edges>>]
          /\ mesh' = CtorEdges(i_edges, j_edges, k_edges)
          /\ thrown' = ""
    /\ UNCHANGED <<rebuilt, ret>>

\* A mesh built by cell count is built again by cell size, from its own
\* corners and its own uniformCellSize().
RebuildByCellSize ==
    /\ args.ctor = "num_cell"
    /\ mesh.kind = "uniform"
    /\ ~rebuilt.done
    /\ \E ub \in UBChoices(uniformCellSize(mesh)) :
          LET r == CtorCellSize([d \in Dims |-> lowCorner(mesh, d)],
                                [d \in Dims |-> highCorner(mesh, d)],
                                uniformCellSize(mesh), ub)
          IN  rebuilt' = [done |-> TRUE, thrown |-> r.thrown, mesh |-> r.mesh]
    /\ UNCHANGED <<args, mesh, thrown, ret>>

\* The query methods of each specialization.
Queries(kind) ==
    IF kind = "uniform"
    THEN { "lowCorner", "highCorner", "extent", "globalNumCell", "uniformCellSize" }
    ELSE { "lowCorner", "highCorner", "extent", "globalNumCell", "nonUniformEdge" }

\* The dimensions a query takes (uniformCellSize takes none).
QueryDims(q) == IF q = "uniformCellSize" THEN { 0 } ELSE Dims

\* The value query q returns on mesh m.
QueryValue(m, q, dim, ub) ==
    IF m.kind = "uniform"
    THEN CASE q = "lowCorner" -> lowCorner(m, dim)
           [] q = "highCorner" -> highCorner(m, dim)
           [] q = "extent" -> extent(m, dim)
           [] q = "globalNumCell" -> globalNumCell(m, dim, ub)
           [] q = "uniformCellSize" -> uniformCellSize(m)
    ELSE CASE q = "lowCorner" -> nonUniformLowCorner(m, dim)
           [] q = "highCorner" -> nonUniformHighCorner(m, dim)
           [] q = "extent" -> nonUniformExtent(m, dim)
           [] q = "globalNumCell" -> nonUniformGlobalNumCell(m, dim)
           [] q = "nonUniformEdge" -> nonUniformEdge(m, dim)

\* extent() of the uniform mesh written with a compound assignment,
\* _global_high_corner[dim] -= _global_low_corner[dim]: the query stores
\* what it returns.
QueryInPlace(r) ==
    /\ mesh.kind # "none"
    /\ \E q \in Queries(mesh.kind) : \E dim \in QueryDims(q) :
        \E ub \in (IF mesh.kind = "uniform" THEN UBChoices(mesh.cell_size) ELSE { 0 }) :
          /\ ret' = [ret EXCEPT ![r] =
                        [q |-> q, dim |-> dim, val |-> QueryValue(mesh, q, dim, ub)]]
          /\ mesh' = IF mesh.kind = "uniform" /\ q = "extent"
                     THEN [mesh EXCEPT !.global_high_corner[dim] = extent(mesh, dim)]
                     ELSE mesh
    /\ UNCHANGED <<args, thrown, rebuilt>>

\* Reader r calls one query method of the constructed mesh (all of them are
\* const member functions) and keeps what it returned.
Query(r) ==
    /\ mesh.kind # "none"
    /\ \E q \in Queries(mesh.kind) : \E dim \in QueryDims(q) :
        \E ub \in (IF mesh.kind = "uniform" THEN UBChoices(mesh.cell_size) ELSE { 0 }) :
          ret' = [ret EXCEPT ![r] =
                    [q |-> q, dim |-> dim, val |-> QueryValue(mesh, q, dim, ub)]]
    /\ UNCHANGED <<args, mesh, thrown, rebuilt>>

Next ==
    \/ CreateByCellSize(CornerPairs, CellSizes)
    \/ CreateByNumCell(CornerPairs, NumCells)
    \/ CreateNonUniform(EdgeSeqs)
    \/ RebuildByCellSize

Spec == Init /\ [][Next]_vars

\* Construction followed by the readers' queries, in any interleaving.
NextQuery ==
    \/ CreateByCellSize(QueryPairs, QuerySizes)
    \/ CreateByNumCell(QueryPairs, QueryCounts)
    \/ CreateNonUniform(QuerySeqs)
    \/ \E r \in Readers : Query(r)

SpecQuery == Init /\ [][NextQuery]_vars

(***************************************************************************)
(* Properties.  They are stated on the arguments of the call and on the    *)
(* query methods of the object, with their own reading of "within          *)
(* 100 * epsilon".                                                         *)
(***************************************************************************)
\* a and b differ by more than t.
Exceeds(a, b, t) == Gt(Sub(a, b), t) \/ Gt(Sub(b, a), t)

TwoTol == Mul(FromInt(2), Tol)

Built == mesh.kind = "uniform"

\* extent[d] of the corners passed.
ArgExtent(d) == Sub(args.high[d], args.low[d])

\* round(ext / cell_size) * cell_size, cell_size nonzero.
Recomputed(ext, cell_size) == Mul(FromInt(RintToInt(Div(ext, cell_size))), cell_size)

\* The candidate cell size extent[d] / n[d] of the counts passed.
ArgCandidate(d) == Div(ArgExtent(d), FromInt(args.num_cell[d]))

\* C1: construction by cell size throws "Extent not evenly divisible by
\* uniform cell size" if and only if in some dimension
\* |round(extent/cell_size)*cell_size - extent| exceeds 100*epsilon; in
\* every other case it throws nothing and produces the mesh, and when it
\* throws no mesh is produced.
C1_NotDivisibleIff ==
    args.ctor = "cell_size" =>
        LET bad == \E d \in Dims :
                      Exceeds(Recomputed(ArgExtent(d), args.cell_size), ArgExtent(d), Tol)
        IN  /\ bad <=> thrown = ExtentNotDivisible
            /\ bad => mesh.kind = "none"
            /\ ~bad => thrown = "" /\ Built

\* Construction by cell size is refused for dimension K alone, whose extent
\* is off a multiple of the cell size by one epsilon beyond the tolerance.
C1_Witness ==
    /\ args.ctor = "cell_size"
    /\ thrown = ExtentNotDivisible
    /\ \A d \in { DimI, DimJ } :
          ~Exceeds(Recomputed(ArgExtent(d), args.cell_size), ArgExtent(d), Tol)
    /\ Sub(Sub(ArgExtent(DimK), Recomputed(ArgExtent(DimK), args.cell_size)), Tol) = Epsilon

\* C2: on every uniform mesh produced by either constructor, in every
\* dimension, globalNumCell(d) * uniformCellSize() is within 100*epsilon of
\* extent(d).
C2_MeshDivisible ==
    Built =>
        \A d \in Dims : \A ub \in UBChoices(uniformCellSize(mesh)) :
            ~Exceeds(Mul(FromInt(globalNumCell(mesh, d, ub)), uniformCellSize(mesh)),
                     extent(mesh, d), Tol)

\* A mesh built by cell count one of whose extents is off the multiple, by
\* the whole tolerance.
C2_Witness ==
    /\ args.ctor = "num_cell"
    /\ Built
    /\ \E d \in Dims :
          Sub(extent(mesh, d), Mul(FromInt(args.num_cell[d]), uniformCellSize(mesh))) = Tol

\* C3: construction by cell count throws "Cell sizes not equal" exactly when
\* the candidate cell size of dimension I differs from that of J or of K by
\* more than 100*epsilon, whatever the later checks would have found.
C3_SizesNotEqualIff ==
    args.ctor = "num_cell" =>
        (thrown = CellSizesNotEqual <=>
            \/ Exceeds(ArgCandidate(DimI), ArgCandidate(DimJ), Tol)
            \/ Exceeds(ArgCandidate(DimI), ArgCandidate(DimK), Tol))

\* "Cell sizes not equal" is thrown for counts that, with dimension I's cell
\* size, are mismatched in a dimension that is evenly divisible: dimension
\* K alone differs.
C3_Witness ==
    /\ args.ctor = "num_cell"
    /\ thrown = CellSizesNotEqual
    /\ ~Exceeds(ArgCandidate(DimI), ArgCandidate(DimJ), Tol)
    /\ ~IsZero(ArgCandidate(DimI))
    /\ RintToInt(Div(ArgExtent(DimK), ArgCandidate(DimI))) # args.num_cell[DimK]
    /\ ~Exceeds(Recomputed(ArgExtent(DimK), ArgCandidate(DimI)), ArgExtent(DimK), Tol)

\* C4 as claimed: when construction by cell count succeeds, the candidate
\* cell sizes agree within 100*epsilon for every pair of dimensions.
C4_AllPairsWithinTol ==
    args.ctor = "num_cell" /\ Built =>
        \A d1, d2 \in Dims : ~Exceeds(ArgCandidate(d1), ArgCandidate(d2), Tol)

\* C4 amended: when construction by cell count succeeds, the candidates of
\* I and J and of I and K agree within 100*epsilon, those of J and K within
\* 200*epsilon.
C4_AnchoredOnI ==
    args.ctor = "num_cell" /\ Built =>
        /\ ~Exceeds(ArgCandidate(DimI), ArgCandidate(DimJ), Tol)
        /\ ~Exceeds(ArgCandidate(DimI), ArgCandidate(DimK), Tol)
        /\ ~Exceeds(ArgCandidate(DimJ), ArgCandidate(DimK), TwoTol)

\* A mesh built by cell count whose candidates of J and K are 200*epsilon
\* apart.
C4_Witness ==
    /\ args.ctor = "num_cell"
    /\ Built
    /\ Abs(Sub(ArgCandidate(DimJ), ArgCandidate(DimK))) = TwoTol

\* The count round(extent[d] / cell_size) the constructor recomputes, the
\* cell size being dimension I's candidate.
Recount(d, ub) ==
    IF IsZero(ArgCandidate(DimI)) THEN ub
    ELSE RintToInt(Div(ArgExtent(d), ArgCandidate(DimI)))

\* The evenly-divisible check passes for dimension d.
DivisibleAt(d, ub) ==
    ~Exceeds(Mul(FromInt(Recount(d, ub)), ArgCandidate(DimI)), ArgExtent(d), Tol)

ArgSizesAgree ==
    /\ ~Exceeds(ArgCandidate(DimI), ArgCandidate(DimJ), Tol)
    /\ ~Exceeds(ArgCandidate(DimI), ArgCandidate(DimK), Tol)

\* C5 as claimed (read with the cell sizes found equal, so that a cell size
\* to recompute with exists): a mesh built by cell count has
\* globalNumCell(d) = n[d] in every dimension, and a recomputed count that
\* differs from n[d] in some dimension makes construction fail, with
\* "Global number of cells mismatch" when the evenly-divisible check passes
\* for that dimension.
C5_MismatchReported ==
    args.ctor = "num_cell" =>
        \A ub \in UBChoices(ArgCandidate(DimI)) :
            /\ Built => \A d \in Dims : globalNumCell(mesh, d, ub) = args.num_cell[d]
            /\ ArgSizesAgree =>
                  \A d \in Dims :
                      Recount(d, ub) # args.num_cell[d] =>
                          /\ thrown # ""
                          /\ DivisibleAt(d, ub) => thrown = NumCellMismatch

\* C5 amended: a mesh built by cell count has globalNumCell(d) = n[d] in
\* every dimension; with the cell sizes found equal, a recomputed count that
\* differs from n[d] in some dimension makes construction fail, with
\* "Global number of cells mismatch" when the evenly-divisible check passes
\* for that dimension and both checks pass in every dimension before it.
C5_FirstFailureReported ==
    args.ctor = "num_cell" =>
        \A ub \in UBChoices(ArgCandidate(DimI)) :
            /\ Built => \A d \in Dims : globalNumCell(mesh, d, ub) = args.num_cell[d]
            /\ ArgSizesAgree =>
                  \A d \in Dims :
                      Recount(d, ub) # args.num_cell[d] =>
                          /\ thrown # ""
                          /\ ( /\ DivisibleAt(d, ub)
                               /\ \A e \in Dims : e < d =>
                                     /\ DivisibleAt(e, ub)
                                     /\ Recount(e, ub) = args.num_cell[e] )
                             => thrown = NumCellMismatch

\* "Global number of cells mismatch" is thrown for dimension K, after I and
\* J passed both checks.
C5_Witness ==
    /\ args.ctor = "num_cell"
    /\ thrown = NumCellMismatch
    /\ ~IsZero(ArgCandidate(DimI))
    /\ \A e \in { DimI, DimJ } : DivisibleAt(e, 0) /\ Recount(e, 0) = args.num_cell[e]
    /\ Recount(DimK, 0) # args.num_cell[DimK]

\* C6 as claimed: every uniform mesh produced has lowCorner(d) <
\* highCorner(d) and extent(d) > 0 in every dimension, whatever was passed.
C6_CornersOrdered ==
    Built =>
        \A d \in Dims :
            /\ Gt(highCorner(mesh, d), lowCorner(mesh, d))
            /\ Gt(extent(mesh, d), Zero)

\* C6 amended: every uniform mesh produced holds the corners passed,
\* unchanged, so that lowCorner(d) < highCorner(d), and extent(d) > 0, hold
\* on the mesh in exactly the dimensions where low_corner[d] <
\* high_corner[d] held for the corners passed.
C6_CornersAsPassed ==
    Built =>
        \A d \in Dims :
            /\ lowCorner(mesh, d) = args.low[d]
            /\ highCorner(mesh, d) = args.high[d]
            /\ Gt(highCorner(mesh, d), lowCorner(mesh, d)) <=> Gt(args.high[d], args.low[d])
            /\ Gt(extent(mesh, d), Zero) <=> Gt(args.high[d], args.low[d])

\* A mesh produced from corners that are ordered in dimension I and are not
\* in dimension J.
C6_Witness ==
    /\ Built
    /\ Gt(args.high[DimI], args.low[DimI])
    /\ Gt(args.low[DimJ], args.high[DimJ])

\* C7: on a non-uniform mesh built from edge vectors of length >= 2, in
\* every dimension lowCorner is the first edge, highCorner the last,
\* extent their difference and globalNumCell the length less one.
C7_NonUniformQueries ==
    (args.ctor = "edges" /\ \A d \in Dims : Len(args.edges[d + 1]) >= 2) =>
        \A d \in Dims :
            LET e == args.edges[d + 1]
            IN  /\ nonUniformLowCorner(mesh, d) = e[1]
                /\ nonUniformHighCorner(mesh, d) = e[Len(e)]
                /\ nonUniformExtent(mesh, d) = Sub(e[Len(e)], e[1])
                /\ nonUniformGlobalNumCell(mesh, d) = Len(e) - 1

\* A non-uniform mesh with edge vectors of different lengths, the first and
\* last edges different in each.
C7_Witness ==
    /\ args.ctor = "edges"
    /\ mesh.kind = "nonuniform"
    /\ Len(args.edges[1]) = 3
    /\ Len(args.edges[2]) = 2
    /\ \A d \in Dims :
          /\ Len(args.edges[d + 1]) >= 2
          /\ args.edges[d + 1][1] # args.edges[d + 1][Len(args.edges[d + 1])]

\* C8: construction of a non-uniform mesh never throws, whatever the edge
\* vectors, and nonUniformEdge(d) is the vector passed for dimension d.
C8_EdgesVerbatim ==
    args.ctor = "edges" =>
        /\ thrown = ""
        /\ mesh.kind = "nonuniform"
        /\ \A d \in Dims : nonUniformEdge(mesh, d) = args.edges[d + 1]

\* A non-uniform mesh built from a decreasing vector, an empty vector and an
\* increasing one.
C8_Witness ==
    /\ args.ctor = "edges"
    /\ mesh.kind = "nonuniform"
    /\ Len(args.edges[1]) = 2 /\ Gt(args.edges[1][1], args.edges[1][2])
    /\ args.edges[2] = <<>>
    /\ Len(args.edges[3]) = 2 /\ Gt(args.edges[3][2], args.edges[3][1])

\* C9: once a mesh is constructed no query changes it, and a query repeated
\* with the same dimension, by the same reader or by another, returns the
\* same value.
C9_Immutable ==
    /\ [][mesh.kind # "none" =>
            /\ mesh' = mesh
            /\ \A r \in Readers :
                  (ret'[r].q = ret[r].q /\ ret'[r].dim = ret[r].dim) =>
                      ret'[r].val = ret[r].val]_vars
    /\ [](\A r1, r2 \in Readers :
            (ret[r1].q = ret[r2].q /\ ret[r1].dim = ret[r2].dim) =>
                ret[r1].val = ret[r2].val)

\* Two readers hold the result of the same query of a uniform mesh.
C9_Witness ==
    /\ Built
    /\ ret[1].q = "highCorner" /\ ret[1].dim = DimK
    /\ ret[2].q = "highCorner" /\ ret[2].dim = DimK

\* C10: a mesh built by cell count, built again by cell size from its
\* corners and its uniformCellSize(), is built without a throw and answers
\* every query as the first one does.
C10_RoundTrip ==
    rebuilt.done =>
        /\ rebuilt.thrown = ""
        /\ rebuilt.mesh.kind = "uniform"
        /\ uniformCellSize(rebuilt.mesh) = uniformCellSize(mesh)
        /\ \A d \in Dims : \A ub \in UBChoices(uniformCellSize(mesh)) :
              /\ lowCorner(rebuilt.mesh, d) = lowCorner(mesh, d)
              /\ highCorner(rebuilt.mesh, d) = highCorner(mesh, d)
              /\ extent(rebuilt.mesh, d) = extent(mesh, d)
              /\ globalNumCell(rebuilt.mesh, d, ub) = globalNumCell(mesh, d, ub)

\* The round trip of a mesh one of whose extents is off the multiple of the
\* cell size by exactly the tolerance.
C10_Witness ==
    /\ rebuilt.done
    /\ \E d \in Dims :
          Abs(Sub(Mul(FromInt(args.num_cell[d]), uniformCellSize(mesh)), extent(mesh, d))) = Tol

====
